---- MODULE Spec2Model ----
(***************************************************************************)
(* Pivio: wallpaper discovery (scanner.py), the systemd wrapper and        *)
(* apply_wallpaper (system.py), and the apply/stop handlers of the main    *)
(* window together with the state file helpers (app.py).                   *)
(*                                                                         *)
(* Text is modelled as a sequence of tokens (strings); a path is the       *)
(* sequence of its separators and components.  A file is a record          *)
(* [exists, text].  Every call that leaves the process (systemctl, file    *)
(* system writes) takes its outcome as an input of the action.             *)
(***************************************************************************)
EXTENDS Integers, Sequences, FiniteSets, TLC

VARIABLES
    workshop_dirs,           \* which of WORKSHOP_PATHS exist (their indices)
    folders,                 \* content of the workshop directory (os.listdir order)
    svcActive,               \* supervisor: the unit is running
    svcEnabled,              \* supervisor: the unit starts on login
    unitFile,                \* SERVICE_PATH
    stateFile,               \* STATE_FILE
    current_wallpaper,       \* MainWindow.current_wallpaper (its file_path, or None)
    running_wallpaper_path,  \* MainWindow.running_wallpaper_path
    sidebar,                 \* the list widget: <<[file_path, is_current], ...>>
    last,                    \* record of the last handler run (history)
    scanIn,                  \* arguments of the last WallpaperScanner.scan call
    scanOut,                 \* its result
    volumeFile,              \* VOLUME_FILE
    volumeCall               \* the last save_volume / get_volume call and its result

vars == <<workshop_dirs, folders, svcActive, svcEnabled, unitFile, stateFile, current_wallpaper,
          running_wallpaper_path, sidebar, last, scanIn, scanOut, volumeFile, volumeCall>>

----------------------------------------------------------------------------
(* Bounds *)

MaxFolders == 2
MaxVolumeLen == 3

----------------------------------------------------------------------------
(* Python values *)

\* Optional[str] of a path: None is the empty sequence (get_current_wallpaper
\* never returns "", and a Wallpaper's file_path is never empty).
None == <<>>

NoneStr == "<None>"

TRUE_ == "True"
FALSE_ == "False"
RAISE == "raise"

Whitespace == {" ", "\n", "\t"}

RECURSIVE lstrip(_)
lstrip(text) ==
    IF text # <<>> /\ Head(text) \in Whitespace THEN lstrip(Tail(text)) ELSE text

RECURSIVE rstrip(_)
rstrip(text) ==
    IF text # <<>> /\ text[Len(text)] \in Whitespace
    THEN rstrip(SubSeq(text, 1, Len(text) - 1))
    ELSE text

\* str.strip()
strip(text) == rstrip(lstrip(text))

\* str.replace(old, new) where old is one token and new a token sequence
RECURSIVE replace(_, _, _)
replace(text, old, new) ==
    IF text = <<>> THEN <<>>
    ELSE (IF Head(text) = old THEN new ELSE <<Head(text)>>) \o replace(Tail(text), old, new)

\* str.lower() on the strings of the model
lower(s) ==
    CASE s = "Scene" -> "scene"
      [] s = "WEB"   -> "web"
      [] s = "Video" -> "video"
      [] s = ".MP4"  -> ".mp4"
      [] s = ".WebM" -> ".webm"
      [] OTHER       -> s

NoFile == [exists |-> FALSE, text |-> <<>>]
FileOf(text) == [exists |-> TRUE, text |-> text]

----------------------------------------------------------------------------
(* config.py *)

VALID_VIDEO_EXTENSIONS == {".mp4", ".webm"}
PREVIEW_EXTENSIONS == <<"preview.jpg", "preview.png", "preview.gif", "preview.jpeg">>
SERVICE_SCRIPT == <<"/", "app", "/", "pivio-autostart.sh">>

\* pivio.service.template: text with the two placeholders
SERVICE_TEMPLATE ==
    <<"ExecStart=", "{{SERVICE_SCRIPT_PATH}}", " ", "{{VIDEO_PATH}}", "\n">>

----------------------------------------------------------------------------
(* Outcomes of the calls that leave the process *)

\* subprocess.run([...], check=True): exit status 0, a non-zero exit status
\* (CalledProcessError), or the command could not be run at all (OSError)
CmdOutcomes == {"ok", "nonzero", "oserror"}

\* subprocess.run([...]) without check: only OSError is a failure
QueryOutcomes == {"ok", "oserror"}

\* create_service: everything works, or the first call that fails
CreateOutcomes == {"ok", "chmod", "mkdir", "read", "open", "write"}

\* save_current_wallpaper: everything works, or the first call that fails
SaveOutcomes == {"ok", "mkdir", "open", "write"}

\* clear_current_wallpaper: unlink works or fails
UnlinkOutcomes == {"ok", "fail"}

----------------------------------------------------------------------------
(* system.py: SystemdManager.  sys = [active, enabled, unit] is the state   *)
(* of the supervisor and of the unit file; every operation returns the new *)
(* state and ret, which is "True", "False" or "raise".                     *)

\* try: subprocess.run(..., check=True); return True
\* except CalledProcessError: return False
RunChecked(oc) ==
    CASE oc = "ok"      -> TRUE_
      [] oc = "nonzero" -> FALSE_
      [] OTHER          -> RAISE

RenderUnit(video_path) ==
    replace(replace(SERVICE_TEMPLATE, "{{VIDEO_PATH}}", video_path),
            "{{SERVICE_SCRIPT_PATH}}", SERVICE_SCRIPT)

create_service(sys, video_path, oc) ==
    CASE oc = "chmod" -> [sys |-> sys, ret |-> RAISE]      \* os.chmod is outside the try
      [] oc = "mkdir" -> [sys |-> sys, ret |-> RAISE]      \* so is mkdir
      [] oc = "read"  -> [sys |-> sys, ret |-> FALSE_]
      [] oc = "open"  -> [sys |-> sys, ret |-> FALSE_]
      [] oc = "write" -> [sys |-> [sys EXCEPT !.unit = FileOf(<<>>)], ret |-> FALSE_]
      [] OTHER        -> [sys |-> [sys EXCEPT !.unit = FileOf(RenderUnit(video_path))],
                          ret |-> TRUE_]

reload_daemon(sys, oc) == [sys |-> sys, ret |-> RunChecked(oc)]

enable_service(sys, oc) ==
    [sys |-> IF oc = "ok" THEN [sys EXCEPT !.enabled = TRUE] ELSE sys,
     ret |-> RunChecked(oc)]

disable_service(sys, oc) ==
    [sys |-> IF oc = "ok" THEN [sys EXCEPT !.enabled = FALSE] ELSE sys,
     ret |-> RunChecked(oc)]

start_service(sys, oc) ==
    [sys |-> IF oc = "ok" THEN [sys EXCEPT !.active = TRUE] ELSE sys,
     ret |-> RunChecked(oc)]

stop_service(sys, oc) ==
    [sys |-> IF oc = "ok" THEN [sys EXCEPT !.active = FALSE] ELSE sys,
     ret |-> RunChecked(oc)]

DefaultStatus == [active |-> FALSE, enabled |-> FALSE, status |-> "unknown"]

get_service_status(sys, qa, qe) ==
    IF qa # "ok" THEN DefaultStatus
    ELSE LET r1 == [DefaultStatus EXCEPT
                       !.status = IF sys.active THEN "active" ELSE "inactive",
                       !.active = sys.active]
         IN  IF qe # "ok" THEN r1
             ELSE [r1 EXCEPT !.enabled = sys.enabled]

\* apply_wallpaper that goes on when create_service returned False
apply_wallpaper_IgnoreCreate(sys, video_path, o) ==
    LET s1 == stop_service(sys, o.stop)
        s2 == create_service(s1.sys, video_path, o.create)
        s3 == reload_daemon(s2.sys, o.reload)
        s4 == enable_service(s3.sys, o.enable)
        s5 == start_service(s4.sys, o.start)
    IN  IF s1.ret = RAISE
        THEN [sys |-> s1.sys, ret |-> RAISE, steps |-> <<"stop">>]
        ELSE IF s2.ret = RAISE
        THEN [sys |-> s2.sys, ret |-> RAISE, steps |-> <<"stop", "create">>]
        ELSE IF s3.ret = RAISE
        THEN [sys |-> s3.sys, ret |-> RAISE, steps |-> <<"stop", "create", "reload">>]
        ELSE IF s4.ret # TRUE_
        THEN [sys |-> s4.sys, ret |-> s4.ret,
              steps |-> <<"stop", "create", "reload", "enable">>]
        ELSE [sys |-> s5.sys, ret |-> s5.ret,
              steps |-> <<"stop", "create", "reload", "enable", "start">>]

\* apply_wallpaper that goes on to start the unit when enabling it failed
apply_wallpaper_IgnoreEnable(sys, video_path, o) ==
    LET s1 == stop_service(sys, o.stop)
        s2 == create_service(s1.sys, video_path, o.create)
        s3 == reload_daemon(s2.sys, o.reload)
        s4 == enable_service(s3.sys, o.enable)
        s5 == start_service(s4.sys, o.start)
    IN  IF s1.ret = RAISE
        THEN [sys |-> s1.sys, ret |-> RAISE, steps |-> <<"stop">>]
        ELSE IF s2.ret # TRUE_
        THEN [sys |-> s2.sys, ret |-> s2.ret, steps |-> <<"stop", "create">>]
        ELSE IF s3.ret = RAISE
        THEN [sys |-> s3.sys, ret |-> RAISE, steps |-> <<"stop", "create", "reload">>]
        ELSE IF s4.ret = RAISE
        THEN [sys |-> s4.sys, ret |-> RAISE,
              steps |-> <<"stop", "create", "reload", "enable">>]
        ELSE [sys |-> s5.sys, ret |-> s5.ret,
              steps |-> <<"stop", "create", "reload", "enable", "start">>]

\* apply_wallpaper without the check of start_service's result
apply_wallpaper_NoStartCheck(sys, video_path, o) ==
    LET s1 == stop_service(sys, o.stop)
        s2 == create_service(s1.sys, video_path, o.create)
        s3 == reload_daemon(s2.sys, o.reload)
        s4 == enable_service(s3.sys, o.enable)
        s5 == start_service(s4.sys, o.start)
    IN  IF s1.ret = RAISE
        THEN [sys |-> s1.sys, ret |-> RAISE, steps |-> <<"stop">>]
        ELSE IF s2.ret # TRUE_
        THEN [sys |-> s2.sys, ret |-> s2.ret, steps |-> <<"stop", "create">>]
        ELSE IF s3.ret = RAISE
        THEN [sys |-> s3.sys, ret |-> RAISE, steps |-> <<"stop", "create", "reload">>]
        ELSE IF s4.ret # TRUE_
        THEN [sys |-> s4.sys, ret |-> s4.ret,
              steps |-> <<"stop", "create", "reload", "enable">>]
        ELSE [sys |-> s5.sys, ret |-> IF s5.ret = RAISE THEN RAISE ELSE TRUE_,
              steps |-> <<"stop", "create", "reload", "enable", "start">>]

\* apply_wallpaper that gives up when reload_daemon returned False
apply_wallpaper_AbortOnReload(sys, video_path, o) ==
    LET s1 == stop_service(sys, o.stop)
        s2 == create_service(s1.sys, video_path, o.create)
        s3 == reload_daemon(s2.sys, o.reload)
        s4 == enable_service(s3.sys, o.enable)
        s5 == start_service(s4.sys, o.start)
    IN  IF s1.ret = RAISE
        THEN [sys |-> s1.sys, ret |-> RAISE, steps |-> <<"stop">>]
        ELSE IF s2.ret # TRUE_
        THEN [sys |-> s2.sys, ret |-> s2.ret, steps |-> <<"stop", "create">>]
        ELSE IF s3.ret # TRUE_
        THEN [sys |-> s3.sys, ret |-> s3.ret, steps |-> <<"stop", "create", "reload">>]
        ELSE IF s4.ret # TRUE_
        THEN [sys |-> s4.sys, ret |-> s4.ret,
              steps |-> <<"stop", "create", "reload", "enable">>]
        ELSE [sys |-> s5.sys, ret |-> s5.ret,
              steps |-> <<"stop", "create", "reload", "enable", "start">>]

\* apply_wallpaper: o gives the outcome of each step.  steps lists the
\* SystemdManager calls made, in order.
apply_wallpaper(sys, video_path, o) ==
    LET s1 == stop_service(sys, o.stop)
        s2 == create_service(s1.sys, video_path, o.create)
        s3 == reload_daemon(s2.sys, o.reload)
        s4 == enable_service(s3.sys, o.enable)
        s5 == start_service(s4.sys, o.start)
    IN  IF s1.ret = RAISE
        THEN [sys |-> s1.sys, ret |-> RAISE, steps |-> <<"stop">>]
        ELSE IF s2.ret # TRUE_
        THEN [sys |-> s2.sys, ret |-> s2.ret, steps |-> <<"stop", "create">>]
        ELSE IF s3.ret = RAISE
        THEN [sys |-> s3.sys, ret |-> RAISE, steps |-> <<"stop", "create", "reload">>]
        ELSE IF s4.ret # TRUE_
        THEN [sys |-> s4.sys, ret |-> s4.ret,
              steps |-> <<"stop", "create", "reload", "enable">>]
        ELSE [sys |-> s5.sys, ret |-> s5.ret,
              steps |-> <<"stop", "create", "reload", "enable", "start">>]

----------------------------------------------------------------------------
(* scanner.py.  A folder of the workshop directory is                      *)
(*   [name, json, files]: files is the folder's listing (names, in         *)
(*   os.listdir order) and json describes its project.json:                *)
(*   [kind, has, title, file, type] with kind                              *)
(*     "absent"       no project.json                                      *)
(*     "undecodable"  bytes that are not UTF-8 (UnicodeDecodeError)         *)
(*     "invalid"      not JSON (JSONDecodeError)                           *)
(*     "falsy"        valid JSON that is falsy: null, {}, [], 0, ""        *)
(*     "list"         a non-empty JSON array                               *)
(*     "object"       a non-empty JSON object; has = the keys among title, *)
(*                    file, type that it holds                             *)
(* A title is a sequence of code points; file and type are strings.        *)

NoneTitle == <<0 - 1>>

\* os.path.splitext(name)[1] on the file names of the model
splitext_ext(name) ==
    CASE name = "a.mp4"     -> ".mp4"
      [] name = "b.WebM"    -> ".WebM"
      [] name = "c.txt"     -> ".txt"
      [] name = "scene.pkg" -> ".pkg"
      [] OTHER              -> ""

\* title.lower(): A-Z to a-z
lower_title(t) == [i \in 1..Len(t) |-> IF t[i] >= 65 /\ t[i] <= 90 THEN t[i] + 32 ELSE t[i]]

\* str < str: by code points, a proper prefix is smaller
RECURSIVE str_less(_, _)
str_less(a, b) ==
    IF b = <<>> THEN FALSE
    ELSE IF a = <<>> THEN TRUE
    ELSE IF Head(a) # Head(b) THEN Head(a) < Head(b)
    ELSE str_less(Tail(a), Tail(b))

Range(f) == {f[i] : i \in DOMAIN f}

\* os.path.join(workshop_path, wallpaper_folder [, file_name])
folder_path_of(workshop_path, folder) == workshop_path \o <<"/", folder.name>>
file_path_of(workshop_path, folder, file_name) ==
    folder_path_of(workshop_path, folder) \o <<"/", file_name>>

\* the first of WORKSHOP_PATHS that is a directory; dirs = the indices of
\* the candidates that exist
WORKSHOP_PATHS == << <<"/", "steam-debian">>, <<"/", "steam-local">>, <<"/", "steam-flatpak">> >>

get_workshop_path(dirs) ==
    IF dirs = {} THEN None
    ELSE WORKSHOP_PATHS[CHOOSE i \in dirs : \A j \in dirs : i <= j]

RECURSIVE find_preview_from(_, _, _, _)
find_preview_from(workshop_path, folder, listing, i) ==
    IF i > Len(listing) THEN None
    ELSE IF listing[i] \in Range(PREVIEW_EXTENSIONS)
    THEN file_path_of(workshop_path, folder, listing[i])
    ELSE find_preview_from(workshop_path, folder, listing, i + 1)

find_preview(workshop_path, folder) ==
    find_preview_from(workshop_path, folder, folder.files, 1)

\* "raise", "None" or "data"
parse_project_json(folder) ==
    CASE folder.json.kind = "absent"      -> "None"
      [] folder.json.kind = "undecodable" -> RAISE   \* not caught by the except clause
      [] folder.json.kind = "invalid"     -> "None"
      [] OTHER                            -> "data"

\* project_json.get(key)
json_get_title(json) == IF "title" \in json.has THEN json.title ELSE NoneTitle
json_get_file(json) == IF "file" \in json.has THEN json.file ELSE NoneStr
json_get_type(json) == IF "type" \in json.has THEN json.type ELSE NoneStr

\* one iteration of the loop of scan without the os.path.isfile test
scan_folder_NoIsFile(workshop_path, folder, filter_videos_only) ==
    LET parsed == parse_project_json(folder)
        json == folder.json
        title == json_get_title(json)
        file_name == json_get_file(json)
        wallpaper_type == json_get_type(json)
        full_file_path == file_path_of(workshop_path, folder, file_name)
        item == [title |-> title,
                 file_path |-> full_file_path,
                 preview_path |-> find_preview(workshop_path, folder),
                 folder_path |-> folder_path_of(workshop_path, folder),
                 wallpaper_type |-> wallpaper_type]
        skip == [act |-> "continue", item |-> item]
        fail == [act |-> RAISE, item |-> item]
    IN  IF parsed = RAISE THEN fail
        ELSE IF parsed = "None" \/ json.kind = "falsy" THEN skip
        ELSE IF json.kind = "list" THEN fail
        ELSE IF filter_videos_only /\ wallpaper_type = NoneStr THEN fail
        ELSE IF filter_videos_only /\ lower(wallpaper_type) \in {"scene", "web"} THEN skip
        ELSE IF filter_videos_only /\ file_name = NoneStr THEN fail
        ELSE IF filter_videos_only
                /\ lower(splitext_ext(file_name)) \notin VALID_VIDEO_EXTENSIONS THEN skip
        ELSE IF file_name = NoneStr THEN fail
        ELSE [act |-> "append", item |-> item]

\* one iteration of the loop of scan: [act, item] with act "raise", "continue"
\* or "append"
scan_folder(workshop_path, folder, filter_videos_only) ==
    LET parsed == parse_project_json(folder)
        json == folder.json
        title == json_get_title(json)
        file_name == json_get_file(json)
        wallpaper_type == json_get_type(json)
        full_file_path == file_path_of(workshop_path, folder, file_name)
        item == [title |-> title,
                 file_path |-> full_file_path,
                 preview_path |-> find_preview(workshop_path, folder),
                 folder_path |-> folder_path_of(workshop_path, folder),
                 wallpaper_type |-> wallpaper_type]
        skip == [act |-> "continue", item |-> item]
        fail == [act |-> RAISE, item |-> item]
    IN  IF parsed = RAISE THEN fail
        ELSE IF parsed = "None" \/ json.kind = "falsy" THEN skip    \* if not project_json
        ELSE IF json.kind = "list" THEN fail                        \* list has no .get
        ELSE IF filter_videos_only /\ wallpaper_type = NoneStr THEN fail   \* None.lower()
        ELSE IF filter_videos_only /\ lower(wallpaper_type) \in {"scene", "web"} THEN skip
        ELSE IF filter_videos_only /\ file_name = NoneStr THEN fail        \* splitext(None)
        ELSE IF filter_videos_only
                /\ lower(splitext_ext(file_name)) \notin VALID_VIDEO_EXTENSIONS THEN skip
        ELSE IF file_name = NoneStr THEN fail                              \* join(..., None)
        ELSE IF file_name \notin Range(folder.files) THEN skip             \* not isfile
        ELSE [act |-> "append", item |-> item]

\* the loop of scan over the listing, from folder i on
RECURSIVE scan_loop(_, _, _, _, _)
scan_loop(workshop_path, listing, filter_videos_only, i, wallpapers) ==
    IF i > Len(listing) THEN [raised |-> FALSE, wallpapers |-> wallpapers]
    ELSE LET r == scan_folder(workshop_path, listing[i], filter_videos_only)
         IN  IF r.act = RAISE THEN [raised |-> TRUE, wallpapers |-> <<>>]
             ELSE scan_loop(workshop_path, listing, filter_videos_only, i + 1,
                            IF r.act = "append" THEN Append(wallpapers, r.item)
                            ELSE wallpapers)

\* list.sort(key=lambda w: w.title.lower()): stable; w goes after every
\* element whose key is not greater than its own
RECURSIVE insert_by_title(_, _)
insert_by_title(sorted, w) ==
    IF sorted = <<>> THEN <<w>>
    ELSE IF str_less(lower_title(w.title), lower_title(Head(sorted).title))
    THEN <<w>> \o sorted
    ELSE <<Head(sorted)>> \o insert_by_title(Tail(sorted), w)

RECURSIVE sort_by_title(_)
sort_by_title(wallpapers) ==
    IF wallpapers = <<>> THEN <<>>
    ELSE insert_by_title(sort_by_title(SubSeq(wallpapers, 1, Len(wallpapers) - 1)),
                         wallpapers[Len(wallpapers)])

\* WallpaperScanner.scan: [raised, wallpapers]
scan(dirs, listing, filter_videos_only) ==
    LET workshop_path == get_workshop_path(dirs)
        looped == scan_loop(workshop_path, listing, filter_videos_only, 1, <<>>)
    IN  IF workshop_path = None THEN [raised |-> FALSE, wallpapers |-> <<>>]
        ELSE IF looped.raised THEN looped
        ELSE IF \E i \in DOMAIN looped.wallpapers : looped.wallpapers[i].title = NoneTitle
        THEN [raised |-> TRUE, wallpapers |-> <<>>]                 \* None.lower() in the key
        ELSE [raised |-> FALSE, wallpapers |-> sort_by_title(looped.wallpapers)]

----------------------------------------------------------------------------
(* system.py: the volume file.  Its text is a sequence of characters.      *)

DigitChars == <<"0", "1", "2", "3", "4", "5", "6", "7", "8", "9">>
Digits == Range(DigitChars)
digit_value(c) == CHOOSE d \in 0..9 : DigitChars[d + 1] = c

\* str(volume) of an int: decimal digits, "-" first when negative
RECURSIVE str_int(_)
str_int(n) ==
    IF n < 0 THEN <<"-">> \o str_int(0 - n)
    ELSE IF n < 10 THEN <<DigitChars[n + 1]>>
    ELSE str_int(n \div 10) \o <<DigitChars[(n % 10) + 1]>>

\* the digits of int(): [ok, value], read from the left; an underscore is
\* allowed between two digits only
RECURSIVE int_digits(_, _, _)
int_digits(body, value, after_digit) ==
    IF body = <<>> THEN [ok |-> after_digit, value |-> value]
    ELSE IF Head(body) \in Digits
    THEN int_digits(Tail(body), 10 * value + digit_value(Head(body)), TRUE)
    ELSE IF Head(body) = "_" /\ after_digit
    THEN int_digits(Tail(body), value, FALSE)
    ELSE [ok |-> FALSE, value |-> 0]

\* int(text): [ok, value]; ok is FALSE where int raises ValueError
int_of(text) ==
    LET s == strip(text)
        signed == s # <<>> /\ Head(s) \in {"+", "-"}
        parsed == int_digits(IF signed THEN Tail(s) ELSE s, 0, FALSE)
    IN  IF parsed.ok /\ signed /\ Head(s) = "-"
        THEN [ok |-> TRUE, value |-> 0 - parsed.value]
        ELSE parsed

\* get_volume: read_text works, fails with an OSError, or finds bytes that
\* are not UTF-8 (UnicodeDecodeError, a ValueError)
VolumeReadOutcomes == {"ok", "oserror", "decode"}

DEFAULT_VOLUME == 50

\* save_volume: [volume_file, ret]; every exception is caught
save_volume(volume_file, volume, oc) ==
    CASE oc = "mkdir" -> [volume_file |-> volume_file, ret |-> FALSE_]
      [] oc = "open"  -> [volume_file |-> volume_file, ret |-> FALSE_]
      [] oc = "write" -> [volume_file |-> FileOf(<<>>), ret |-> FALSE_]
      [] OTHER        -> [volume_file |-> FileOf(str_int(volume)), ret |-> TRUE_]

\* get_volume that falls back to 0
get_volume_DefaultZero(volume_file, oc) ==
    IF ~volume_file.exists THEN 0
    ELSE IF oc # "ok" THEN 0
    ELSE IF int_of(strip(volume_file.text)).ok
    THEN int_of(strip(volume_file.text)).value
    ELSE 0

\* get_volume
get_volume(volume_file, oc) ==
    IF ~volume_file.exists THEN DEFAULT_VOLUME
    ELSE IF oc # "ok" THEN DEFAULT_VOLUME                   \* except (ValueError, OSError)
    ELSE IF int_of(strip(volume_file.text)).ok
    THEN int_of(strip(volume_file.text)).value
    ELSE DEFAULT_VOLUME

----------------------------------------------------------------------------
(* app.py: the state file *)

\* Path(path).exists(): the media files of the workshop folders are the
\* files the paths of the model can name
path_exists(path, dirs, listing) ==
    /\ get_workshop_path(dirs) # None
    /\ \E i \in DOMAIN listing : \E f \in Range(listing[i].files) :
          path = file_path_of(get_workshop_path(dirs), listing[i], f)

\* write_text opens the file for writing, which truncates it, then writes
save_current_wallpaper(state_file, path, oc) ==
    CASE oc = "mkdir" -> [state_file |-> state_file, ret |-> RAISE]
      [] oc = "open"  -> [state_file |-> state_file, ret |-> RAISE]
      [] oc = "write" -> [state_file |-> FileOf(<<>>), ret |-> RAISE]
      [] OTHER        -> [state_file |-> FileOf(path), ret |-> "None"]

\* get_current_wallpaper that trusts the state file without asking the supervisor
get_current_wallpaper_NoStatus(sys, state_file, dirs, listing, qa, qe) ==
    LET path == strip(state_file.text)
    IN  IF state_file.exists /\ path # <<>> /\ path_exists(path, dirs, listing)
        THEN path
        ELSE None

get_current_wallpaper(sys, state_file, dirs, listing, qa, qe) ==
    LET status == get_service_status(sys, qa, qe)
        path == strip(state_file.text)
    IN  IF ~status.active THEN None
        ELSE IF state_file.exists /\ path # <<>> /\ path_exists(path, dirs, listing)
        THEN path
        ELSE None

clear_current_wallpaper(state_file, oc) ==
    IF ~state_file.exists THEN [state_file |-> state_file, ret |-> "None"]
    ELSE IF oc = "ok" THEN [state_file |-> NoFile, ret |-> "None"]
    ELSE [state_file |-> state_file, ret |-> RAISE]

----------------------------------------------------------------------------
(* app.py: MainWindow.  gui = [current, running, sidebar]; a handler        *)
(* returns the new sys, state_file and gui, and what the operator saw:     *)
(* dialog ("none", "warning", "critical") and raised (the handler ended    *)
(* by an exception that nothing catches).                                  *)

\* no status query was made
NotQueried == [active |-> FALSE, enabled |-> FALSE, status |-> "-"]

sidebar_of(wallpapers, running) ==
    [i \in 1..Len(wallpapers) |->
        [file_path |-> wallpapers[i].file_path,
         is_current |-> running # None /\ wallpapers[i].file_path = running]]

\* _load_wallpapers: the dialog is the warning shown when no workshop
\* folder exists; status is what get_service_status returned to
\* get_current_wallpaper
_load_wallpapers(sys, state_file, gui, dirs, listing, qa, qe) ==
    LET running == get_current_wallpaper(sys, state_file, dirs, listing, qa, qe)
        status == get_service_status(sys, qa, qe)
        scanned == scan(dirs, listing, TRUE)
    IN  IF scanned.raised
        THEN [gui |-> [gui EXCEPT !.running = running, !.sidebar = <<>>],
              status |-> status, dialog |-> "none", raised |-> TRUE]
        ELSE IF scanned.wallpapers = <<>>
        THEN [gui |-> [gui EXCEPT !.running = running, !.sidebar = <<>>],
              status |-> status,
              dialog |-> IF get_workshop_path(dirs) = None THEN "warning" ELSE "none",
              raised |-> FALSE]
        ELSE [gui |-> [gui EXCEPT !.running = running,
                                  !.sidebar = sidebar_of(scanned.wallpapers, running)],
              status |-> status, dialog |-> "none", raised |-> FALSE]

\* _on_apply
_on_apply(sys, state_file, gui, dirs, listing, o) ==
    LET applied == apply_wallpaper(sys, gui.current, o)
        saved == save_current_wallpaper(state_file, gui.current, o.save)
        loaded == _load_wallpapers(applied.sys, saved.state_file, gui, dirs, listing,
                                  o.qa, o.qe)
    IN  IF gui.current = None
        THEN [sys |-> sys, state_file |-> state_file, gui |-> gui, ret |-> "-",
              steps |-> <<>>, dialog |-> "warning", raised |-> FALSE, status |-> NotQueried]
        ELSE IF applied.ret = RAISE
        THEN [sys |-> applied.sys, state_file |-> state_file, gui |-> gui, ret |-> RAISE,
              steps |-> applied.steps, dialog |-> "none", raised |-> TRUE, status |-> NotQueried]
        ELSE IF applied.ret = FALSE_
        THEN [sys |-> applied.sys, state_file |-> state_file, gui |-> gui, ret |-> FALSE_,
              steps |-> applied.steps, dialog |-> "critical", raised |-> FALSE,
              status |-> NotQueried]
        ELSE IF saved.ret = RAISE
        THEN [sys |-> applied.sys, state_file |-> saved.state_file, gui |-> gui,
              ret |-> TRUE_, steps |-> Append(applied.steps, "save"),
              dialog |-> "none", raised |-> TRUE, status |-> NotQueried]
        ELSE [sys |-> applied.sys, state_file |-> saved.state_file, gui |-> loaded.gui,
              ret |-> TRUE_, steps |-> applied.steps \o <<"save", "load">>,
              dialog |-> loaded.dialog, raised |-> loaded.raised, status |-> loaded.status]

\* _on_stop that clears the state file only when the unit was stopped
_on_stop_ClearIfStopped(sys, state_file, gui, dirs, listing, o) ==
    LET s1 == stop_service(sys, o.stop)
        s2 == disable_service(s1.sys, o.disable)
        cleared == IF s1.ret = TRUE_ THEN clear_current_wallpaper(state_file, o.unlink)
                   ELSE [state_file |-> state_file, ret |-> "None"]
        loaded == _load_wallpapers(s2.sys, cleared.state_file, gui, dirs, listing,
                                  o.qa, o.qe)
    IN  IF s1.ret = RAISE
        THEN [sys |-> s1.sys, state_file |-> state_file, gui |-> gui,
              steps |-> <<"stop">>, dialog |-> "none", raised |-> TRUE, status |-> NotQueried]
        ELSE IF s2.ret = RAISE
        THEN [sys |-> s2.sys, state_file |-> state_file, gui |-> gui,
              steps |-> <<"stop", "disable">>, dialog |-> "none", raised |-> TRUE, status |-> NotQueried]
        ELSE IF cleared.ret = RAISE
        THEN [sys |-> s2.sys, state_file |-> cleared.state_file, gui |-> gui,
              steps |-> <<"stop", "disable", "clear">>, dialog |-> "none",
              raised |-> TRUE, status |-> NotQueried]
        ELSE [sys |-> s2.sys, state_file |-> cleared.state_file, gui |-> loaded.gui,
              steps |-> <<"stop", "disable", "clear", "load">>,
              dialog |-> loaded.dialog, raised |-> loaded.raised, status |-> loaded.status]

\* _on_stop
_on_stop(sys, state_file, gui, dirs, listing, o) ==
    LET s1 == stop_service(sys, o.stop)
        s2 == disable_service(s1.sys, o.disable)
        cleared == clear_current_wallpaper(state_file, o.unlink)
        loaded == _load_wallpapers(s2.sys, cleared.state_file, gui, dirs, listing,
                                  o.qa, o.qe)
    IN  IF s1.ret = RAISE
        THEN [sys |-> s1.sys, state_file |-> state_file, gui |-> gui,
              steps |-> <<"stop">>, dialog |-> "none", raised |-> TRUE, status |-> NotQueried]
        ELSE IF s2.ret = RAISE
        THEN [sys |-> s2.sys, state_file |-> state_file, gui |-> gui,
              steps |-> <<"stop", "disable">>, dialog |-> "none", raised |-> TRUE, status |-> NotQueried]
        ELSE IF cleared.ret = RAISE
        THEN [sys |-> s2.sys, state_file |-> cleared.state_file, gui |-> gui,
              steps |-> <<"stop", "disable", "clear">>, dialog |-> "none",
              raised |-> TRUE, status |-> NotQueried]
        ELSE [sys |-> s2.sys, state_file |-> cleared.state_file, gui |-> loaded.gui,
              steps |-> <<"stop", "disable", "clear", "load">>,
              dialog |-> loaded.dialog, raised |-> loaded.raised, status |-> loaded.status]

----------------------------------------------------------------------------
(* State machine of the application *)

Sys == [active |-> svcActive, enabled |-> svcEnabled, unit |-> unitFile]
Gui == [current |-> current_wallpaper, running |-> running_wallpaper_path,
        sidebar |-> sidebar]

\* The workshop directory the application starts with: two video items
FolderA == [name |-> "1",
            json |-> [kind |-> "object", has |-> {"title", "file", "type"},
                      title |-> <<79>>, file |-> "a.mp4", type |-> "video"],
            files |-> <<"a.mp4">>]
FolderB == [name |-> "2",
            json |-> [kind |-> "object", has |-> {"title", "file", "type"},
                      title |-> <<97>>, file |-> "b.WebM", type |-> "Video"],
            files |-> <<"b.WebM">>]
Library == <<FolderA, FolderB>>
LibraryDirs == {2}

NoRun == [op |-> "none", ret |-> "-", steps |-> <<>>, failed |-> {}, oserror |-> {},
          dialog |-> "none", raised |-> FALSE, status |-> NotQueried]

\* the outcomes of the steps of one run of _on_apply; a step that the run
\* does not reach has outcome "ok"
ApplySteps == {"stop", "create", "reload", "enable", "start", "save", "qa", "qe"}
ApplyOutcomeSpace ==
    [stop : CmdOutcomes, create : CreateOutcomes, reload : CmdOutcomes,
     enable : CmdOutcomes, start : CmdOutcomes, save : SaveOutcomes,
     qa : QueryOutcomes, qe : QueryOutcomes]
Failed(o, keys) == {k \in keys : o[k] # "ok"}
\* the steps whose command could not be run at all (OSError)
NotRun(o, keys) == {k \in keys : o[k] = "oserror"}
ApplyReached(o) ==
    LET applied == apply_wallpaper([active |-> FALSE, enabled |-> FALSE, unit |-> NoFile],
                                   <<"/">>, o)
    IN  Range(applied.steps)
        \cup (IF applied.ret = TRUE_ THEN {"save"} ELSE {})
        \cup (IF applied.ret = TRUE_ /\ o.save = "ok" THEN {"qa"} ELSE {})
        \cup (IF applied.ret = TRUE_ /\ o.save = "ok" /\ o.qa = "ok" THEN {"qe"} ELSE {})
ApplyOutcomes == {o \in ApplyOutcomeSpace : Failed(o, ApplySteps) \subseteq ApplyReached(o)}

StopSteps == {"stop", "disable", "unlink", "qa", "qe"}
StopOutcomeSpace ==
    [stop : CmdOutcomes, disable : CmdOutcomes, unlink : UnlinkOutcomes,
     qa : QueryOutcomes, qe : QueryOutcomes]
StopReached(o) ==
    {"stop"}
    \cup (IF o.stop # "oserror" THEN {"disable"} ELSE {})
    \cup (IF o.stop # "oserror" /\ o.disable # "oserror" THEN {"unlink"} ELSE {})
    \cup (IF o.stop # "oserror" /\ o.disable # "oserror" /\ o.unlink = "ok"
          THEN {"qa"} ELSE {})
    \cup (IF o.stop # "oserror" /\ o.disable # "oserror" /\ o.unlink = "ok" /\ o.qa = "ok"
          THEN {"qe"} ELSE {})
StopOutcomes == {o \in StopOutcomeSpace : Failed(o, StopSteps) \subseteq StopReached(o)}

\* no save_volume or get_volume call was made yet
NoVolumeCall == [op |-> "none", volume |-> 0, oc |-> "ok", saved |-> FALSE,
                 value |-> 0, after_save |-> FALSE]

\* MainWindow.__init__: nothing selected, then _load_wallpapers; the
\* supervisor has no unit yet and there is no state file
Init ==
    /\ workshop_dirs = LibraryDirs
    /\ folders = Library
    /\ svcActive = FALSE
    /\ svcEnabled = FALSE
    /\ unitFile = NoFile
    /\ stateFile = NoFile
    /\ current_wallpaper = None
    /\ running_wallpaper_path = None
    /\ sidebar = sidebar_of(scan(LibraryDirs, Library, TRUE).wallpapers, None)
    /\ last = NoRun
    /\ scanIn = [called |-> FALSE, filter_videos_only |-> TRUE]
    /\ scanOut = [raised |-> FALSE, wallpapers |-> <<>>]
    /\ volumeFile = NoFile
    /\ volumeCall = NoVolumeCall

Commit(r) ==
    /\ svcActive' = r.sys.active
    /\ svcEnabled' = r.sys.enabled
    /\ unitFile' = r.sys.unit
    /\ stateFile' = r.state_file
    /\ current_wallpaper' = r.gui.current
    /\ running_wallpaper_path' = r.gui.running
    /\ sidebar' = r.gui.sidebar

\* the Apply button
OnApply ==
    \E o \in ApplyOutcomes :
        /\ current_wallpaper = None => Failed(o, ApplySteps) = {}   \* no step is run
        /\ \E r \in {_on_apply(Sys, stateFile, Gui, workshop_dirs, folders, o)} :
               /\ Commit(r)
               /\ last' = [op |-> "apply", ret |-> r.ret, steps |-> r.steps,
                           failed |-> Failed(o, ApplySteps),
                           oserror |-> NotRun(o, ApplySteps),
                           dialog |-> r.dialog, raised |-> r.raised,
                           status |-> r.status]
        /\ UNCHANGED <<workshop_dirs, folders, scanIn, scanOut, volumeFile, volumeCall>>

\* the Stop button
OnStop ==
    \E o \in StopOutcomes :
        /\ o.unlink = "fail" => stateFile.exists
        /\ \E r \in {_on_stop(Sys, stateFile, Gui, workshop_dirs, folders, o)} :
               /\ Commit(r)
               /\ last' = [op |-> "stop", ret |-> "-", steps |-> r.steps,
                           failed |-> Failed(o, StopSteps),
                           oserror |-> NotRun(o, StopSteps),
                           dialog |-> r.dialog, raised |-> r.raised, status |-> r.status]
        /\ UNCHANGED <<workshop_dirs, folders, scanIn, scanOut, volumeFile, volumeCall>>

\* _on_wallpaper_selected: the operator picks an entry of the list
OnWallpaperSelected ==
    \E i \in DOMAIN sidebar :
        /\ current_wallpaper' = sidebar[i].file_path
        /\ last' = NoRun
        /\ UNCHANGED <<workshop_dirs, folders, svcActive, svcEnabled, unitFile, stateFile,
                       running_wallpaper_path, sidebar, scanIn, scanOut,
                       volumeFile, volumeCall>>

\* the Refresh button: _load_wallpapers
OnRefresh ==
    \E qa \in QueryOutcomes, qe \in QueryOutcomes :
        /\ qe = "oserror" => qa = "ok"
        /\ \E r \in {_load_wallpapers(Sys, stateFile, Gui, workshop_dirs, folders, qa, qe)} :
               /\ running_wallpaper_path' = r.gui.running
               /\ sidebar' = r.gui.sidebar
               /\ last' = [NoRun EXCEPT !.op = "refresh", !.steps = <<"load">>,
                                        !.failed = {k \in {"qa", "qe"} :
                                                       (IF k = "qa" THEN qa ELSE qe) # "ok"},
                                        !.oserror = {k \in {"qa", "qe"} :
                                                       (IF k = "qa" THEN qa ELSE qe) # "ok"},
                                        !.dialog = r.dialog, !.raised = r.raised,
                                        !.status = r.status]
        /\ UNCHANGED <<workshop_dirs, folders, svcActive, svcEnabled, unitFile, stateFile,
                       current_wallpaper, scanIn, scanOut,
                       volumeFile, volumeCall>>

\* outside the application: the unit stops (it fails, or is stopped by hand)
ExternalStop ==
    /\ svcActive
    /\ svcActive' = FALSE
    /\ last' = NoRun
    /\ UNCHANGED <<workshop_dirs, folders, svcEnabled, unitFile, stateFile,
                   current_wallpaper, running_wallpaper_path, sidebar, scanIn, scanOut,
                   volumeFile, volumeCall>>

\* outside the application: the unit is started (by hand, or at login when
\* it is enabled); it needs a unit file
ExternalStart ==
    /\ ~svcActive
    /\ unitFile.exists /\ unitFile.text # <<>>
    /\ svcActive' = TRUE
    /\ last' = NoRun
    /\ UNCHANGED <<workshop_dirs, folders, svcEnabled, unitFile, stateFile,
                   current_wallpaper, running_wallpaper_path, sidebar, scanIn, scanOut,
                   volumeFile, volumeCall>>

\* outside the application: a file of a workshop folder is deleted
DeleteFile ==
    \E i \in DOMAIN folders : \E k \in DOMAIN folders[i].files :
        /\ folders' = [folders EXCEPT ![i].files =
                          SubSeq(@, 1, k - 1) \o SubSeq(@, k + 1, Len(@))]
        /\ last' = NoRun
        /\ UNCHANGED <<workshop_dirs, svcActive, svcEnabled, unitFile, stateFile,
                       current_wallpaper, running_wallpaper_path, sidebar, scanIn, scanOut,
                       volumeFile, volumeCall>>

Next ==
    \/ OnApply
    \/ OnStop
    \/ OnWallpaperSelected
    \/ OnRefresh
    \/ ExternalStop
    \/ ExternalStart
    \/ DeleteFile

Spec == Init /\ [][Next]_vars

----------------------------------------------------------------------------
(* WallpaperScanner.scan on its own (scanner.py run as a script): the      *)
(* workshop directory is any listing of at most MaxFolders folders.        *)

Object(has, title, file, type) ==
    [kind |-> "object", has |-> has, title |-> title, file |-> file, type |-> type]
NonObject(kind) ==
    [kind |-> kind, has |-> {}, title |-> <<>>, file |-> "", type |-> ""]

AllKeys == {"title", "file", "type"}

FolderShapes ==
    { [json |-> Object(AllKeys, <<79>>, "a.mp4", "video"), files |-> <<"preview.png", "a.mp4">>],
      [json |-> Object(AllKeys, <<97>>, "b.WebM", "Video"), files |-> <<"b.WebM">>],
      [json |-> Object(AllKeys, <<66>>, "scene.pkg", "Scene"), files |-> <<"scene.pkg">>],
      [json |-> Object(AllKeys, <<111>>, "a.mp4", "WEB"), files |-> <<"a.mp4">>],
      [json |-> Object(AllKeys, <<98>>, "c.txt", "video"), files |-> <<"c.txt">>],
      [json |-> Object(AllKeys, <<99>>, "a.mp4", "video"), files |-> <<>>],
      [json |-> Object({"file", "type"}, <<>>, "a.mp4", "video"), files |-> <<"a.mp4">>],
      [json |-> Object({"title", "type"}, <<100>>, "", "video"), files |-> <<"a.mp4">>],
      [json |-> Object({"title", "file"}, <<101>>, "a.mp4", ""), files |-> <<"a.mp4">>],
      [json |-> NonObject("absent"), files |-> <<"a.mp4">>],
      [json |-> NonObject("invalid"), files |-> <<"a.mp4">>],
      [json |-> NonObject("undecodable"), files |-> <<"a.mp4">>],
      [json |-> NonObject("falsy"), files |-> <<"a.mp4">>],
      [json |-> NonObject("list"), files |-> <<"a.mp4">>] }

FolderNames == [i \in 1..(MaxFolders + 1) |-> ToString(i)]

ScanListings ==
    UNION { { [i \in 1..n |-> [name |-> FolderNames[i], json |-> shapes[i].json,
                               files |-> shapes[i].files]] :
              shapes \in [1..n -> FolderShapes] } : n \in 0..MaxFolders }

ScanDirs == {{}, {2}, {1, 3}}

InitScan ==
    /\ workshop_dirs \in ScanDirs
    /\ folders \in ScanListings
    /\ svcActive = FALSE
    /\ svcEnabled = FALSE
    /\ unitFile = NoFile
    /\ stateFile = NoFile
    /\ current_wallpaper = None
    /\ running_wallpaper_path = None
    /\ sidebar = <<>>
    /\ last = NoRun
    /\ scanIn = [called |-> FALSE, filter_videos_only |-> TRUE]
    /\ scanOut = [raised |-> FALSE, wallpapers |-> <<>>]
    /\ volumeFile = NoFile
    /\ volumeCall = NoVolumeCall

ScanCall ==
    \E filter_videos_only \in BOOLEAN :
        /\ scanIn' = [called |-> TRUE, filter_videos_only |-> filter_videos_only]
        /\ scanOut' = scan(workshop_dirs, folders, filter_videos_only)
        /\ UNCHANGED <<workshop_dirs, folders, svcActive, svcEnabled, unitFile, stateFile,
                       current_wallpaper, running_wallpaper_path, sidebar, last,
                       volumeFile, volumeCall>>

NextScan == ScanCall

SpecScan == InitScan /\ [][NextScan]_vars

----------------------------------------------------------------------------
(* save_volume and get_volume on their own: the volume file starts absent  *)
(* or with any text of at most MaxVolumeLen characters; the state file is  *)
(* absent or names a wallpaper.                                            *)

VolumeChars == {"0", "1", "5", "-", "_", ".", "\n", "x"}

VolumeTexts == UNION {[1..n -> VolumeChars] : n \in 0..MaxVolumeLen}

\* the values volume_slider gives to _on_volume_changed (its range is 0..100)
Volumes == {0, 7, 50, 100}

InitVolume ==
    /\ workshop_dirs = LibraryDirs
    /\ folders = Library
    /\ svcActive = FALSE
    /\ svcEnabled = FALSE
    /\ unitFile = NoFile
    /\ stateFile \in {NoFile, FileOf(file_path_of(WORKSHOP_PATHS[2], FolderA, "a.mp4"))}
    /\ current_wallpaper = None
    /\ running_wallpaper_path = None
    /\ sidebar = <<>>
    /\ last = NoRun
    /\ scanIn = [called |-> FALSE, filter_videos_only |-> TRUE]
    /\ scanOut = [raised |-> FALSE, wallpapers |-> <<>>]
    /\ volumeFile \in {NoFile} \cup {FileOf(text) : text \in VolumeTexts}
    /\ volumeCall = NoVolumeCall

SaveVolumeCall ==
    \E volume \in Volumes, oc \in SaveOutcomes :
        /\ \E r \in {save_volume(volumeFile, volume, oc)} :
               /\ volumeFile' = r.volume_file
               /\ volumeCall' = [op |-> "save_volume", volume |-> volume, oc |-> oc,
                                 saved |-> r.ret = TRUE_, value |-> 0,
                                 after_save |-> FALSE]
        /\ UNCHANGED <<workshop_dirs, folders, svcActive, svcEnabled, unitFile,
                       stateFile, current_wallpaper, running_wallpaper_path, sidebar,
                       last, scanIn, scanOut>>

GetVolumeCall ==
    \E oc \in VolumeReadOutcomes :
        /\ oc # "ok" => volumeFile.exists          \* read_text is not called otherwise
        /\ volumeCall' = [op |-> "get_volume",
                          volume |-> IF volumeCall.op = "save_volume"
                                     THEN volumeCall.volume ELSE 0,
                          oc |-> oc, saved |-> FALSE,
                          value |-> get_volume(volumeFile, oc),
                          after_save |-> volumeCall.op = "save_volume" /\ volumeCall.saved]
        /\ UNCHANGED <<workshop_dirs, folders, svcActive, svcEnabled, unitFile,
                       stateFile, current_wallpaper, running_wallpaper_path, sidebar,
                       last, scanIn, scanOut, volumeFile>>

NextVolume ==
    \/ SaveVolumeCall
    \/ GetVolumeCall

SpecVolume == InitVolume /\ [][NextVolume]_vars

----------------------------------------------------------------------------
(* Properties *)

\* the path the state file holds (STATE_FILE.read_text().strip()), if any
PersistedPath == IF stateFile.exists THEN strip(stateFile.text) ELSE None

ApplySucceeded == last.op = "apply" /\ last.ret = TRUE_ /\ ~last.raised
StopCompleted == last.op = "stop" /\ ~last.raised

\* C1: after an apply that reports success (apply_wallpaper returned True and
\* _on_apply ran to its end) the supervisor reports the unit active and the
\* state file holds exactly the file_path of the applied item.
C1_ApplySuccessIsActiveAndPersisted ==
    ApplySucceeded =>
        /\ svcActive
        /\ get_service_status(Sys, "ok", "ok").active
        /\ stateFile = FileOf(current_wallpaper)

\* an apply succeeded although the stop step of apply_wallpaper failed
C1_Witness ==
    /\ ApplySucceeded
    /\ "stop" \in last.failed
    /\ stateFile = FileOf(current_wallpaper)
    /\ running_wallpaper_path = current_wallpaper

\* C2: after _on_stop ran to its end the state file is absent, whatever the
\* stop and disable commands returned.
C2_StopClearsStateFile ==
    StopCompleted => ~stateFile.exists

\* a stop completed although both commands failed; the unit is still running
C2_Witness ==
    /\ StopCompleted
    /\ {"stop", "disable"} \subseteq last.failed
    /\ svcActive
    /\ ~stateFile.exists

ApplyFailed == last.op = "apply" /\ (last.ret \in {FALSE_, RAISE} \/ last.raised)

\* C3: whenever an apply fails (apply_wallpaper returns False or raises, or
\* _on_apply ends by an exception), the path the state file holds is exactly
\* what it was before the call.
C3_FailedApplyKeepsStateFile ==
    [][ApplyFailed' => PersistedPath' = PersistedPath]_vars

Computed(qa, qe) ==
    get_current_wallpaper(Sys, stateFile, workshop_dirs, folders, qa, qe)

\* the handler reached _load_wallpapers
Loaded == "load" \in Range(last.steps)

\* C4: the computed active wallpaper is a path p only if the supervisor
\* reports the unit active, p is the path the state file holds and p exists
\* on disk; when the supervisor reports not active (or cannot be asked) the
\* answer is None whatever the state file holds.  It holds of every
\* evaluation and of the value _load_wallpapers stored last.
C4_ComputedOnlyIfActivePersistedExisting ==
    /\ \A qa \in QueryOutcomes, qe \in QueryOutcomes :
          LET p == Computed(qa, qe)
              status == get_service_status(Sys, qa, qe)
          IN  /\ p # None =>
                    /\ svcActive /\ status.active
                    /\ stateFile.exists /\ p = stateFile.text
                    /\ path_exists(p, workshop_dirs, folders)
              /\ ~status.active => p = None
    /\ Loaded /\ running_wallpaper_path # None =>
          /\ svcActive /\ last.status.active
          /\ stateFile.exists /\ running_wallpaper_path = stateFile.text
          /\ path_exists(running_wallpaper_path, workshop_dirs, folders)
    /\ Loaded /\ ~last.status.active => running_wallpaper_path = None

\* the unit was stopped outside the application while the state file still
\* names an existing wallpaper; a refresh computed None
C4_Witness ==
    /\ last.op = "refresh" /\ last.failed = {}
    /\ ~svcActive
    /\ stateFile.exists /\ stateFile.text # <<>>
    /\ path_exists(stateFile.text, workshop_dirs, folders)
    /\ running_wallpaper_path = None

\* C5: get_service_status never raises, and when one of its two queries
\* cannot be run it returns exactly the defaults
\* [active FALSE, enabled FALSE, status "unknown"].
C5_StatusDefaultsOnAnyQueryFailure ==
    Loaded /\ last.failed \cap {"qa", "qe"} # {} => last.status = DefaultStatus

\* C6 as stated: a failure of regenerate, reload, enable or start ends the
\* sequence at that step and apply does not report success.
C6_AnyStepFailureAborts ==
    last.op = "apply" =>
        \A step \in {"create", "reload", "enable", "start"} :
            step \in last.failed =>
                /\ last.ret # TRUE_
                /\ last.steps[Len(last.steps)] = step

\* C6 as amended: a failure of regenerate, enable or start ends the sequence
\* at that step and apply does not report success (it returns False, or
\* raises when the step raised); a reload that exits non-zero is ignored.
C6_FailureAbortsExceptReload ==
    last.op = "apply" =>
        \A step \in {"create", "enable", "start"} :
            step \in last.failed =>
                /\ last.ret \in {FALSE_, RAISE}
                /\ last.steps[Len(last.steps)] = step
                /\ last.dialog = "critical" \/ last.raised

\* enabling failed after a reload that failed too: apply stopped there
C6_Witness ==
    /\ last.op = "apply"
    /\ last.failed = {"reload", "enable"}
    /\ last.ret = FALSE_
    /\ last.steps = <<"stop", "create", "reload", "enable">>

\* C7 as stated: when regenerating the unit fails (create_service returns
\* False), apply reports failure and the orchestration state is what it was
\* before: the unit runs iff it ran before, and the computed active wallpaper
\* is the same.
C7_RegenerateFailureKeepsState ==
    [][(last'.op = "apply" /\ "create" \in last'.failed /\ last'.ret = FALSE_) =>
          /\ last'.dialog = "critical"
          /\ svcActive' = svcActive
          /\ Computed("ok", "ok")' = Computed("ok", "ok")]_vars

\* C7 as amended: when regenerating the unit fails, apply does not report
\* success and the state file is what it was before; the unit was already
\* stopped by the first step, so unless that stop failed it is not running
\* afterwards and the computed active wallpaper is None.
C7_RegenerateFailureKeepsStateFile ==
    [][(last'.op = "apply" /\ "create" \in last'.failed) =>
          /\ last'.ret \in {FALSE_, RAISE}
          /\ last'.dialog = "critical" \/ last'.raised
          /\ stateFile' = stateFile
          /\ svcActive' = (svcActive /\ "stop" \in last'.failed)
          /\ Computed("ok", "ok")' =
                IF "stop" \in last'.failed THEN Computed("ok", "ok") ELSE None]_vars

\* regenerating failed after the stop succeeded: the state file still names
\* an existing wallpaper, and the unit no longer runs
C7_Witness ==
    /\ last.op = "apply" /\ last.failed = {"create"} /\ last.ret = FALSE_
    /\ stateFile.exists /\ path_exists(stateFile.text, workshop_dirs, folders)
    /\ ~svcActive
    /\ Computed("ok", "ok") = None

\* C8: a failure inside apply or stop (a supervisor command of the sequence,
\* or the state file write or delete) gives the operator the error dialog,
\* which a run that succeeded never shows.
C8_FailureIsIndicated ==
    /\ last.op = "apply" /\ last.failed \cap {"create", "enable", "start", "save"} # {}
          => last.dialog = "critical"
    /\ last.op = "stop" /\ last.failed \cap {"stop", "disable", "unlink"} # {}
          => last.dialog = "critical"
    /\ last.op \in {"apply", "stop"} /\ last.failed = {} => last.dialog # "critical"

\* the unit file create_service is meant to write for video_path
ExpectedUnit(video_path) ==
    <<"ExecStart=">> \o SERVICE_SCRIPT \o <<" ">> \o video_path \o <<"\n">>

\* C9: create_service returns False and never raises when one of its steps
\* fails, and on success the unit file is the template with both
\* placeholders replaced.
C9_CreateServiceNeverRaises ==
    last.op = "apply" /\ "create" \in Range(last.steps) =>
        IF "create" \in last.failed
        THEN last.ret = FALSE_
        ELSE unitFile = FileOf(ExpectedUnit(current_wallpaper))

\* a folder whose project.json is absent, unparsable, not a JSON object, or
\* lacks one of title, file, type
Malformed(folder) == folder.json.kind # "object" \/ folder.json.has # AllKeys

\* a well-formed folder that scan is to return: its media file exists and,
\* with filter_videos_only, it is a video
Returnable(folder, filter_videos_only) ==
    /\ ~Malformed(folder)
    /\ folder.json.file \in Range(folder.files)
    /\ filter_videos_only =>
          /\ lower(folder.json.type) \notin {"scene", "web"}
          /\ lower(splitext_ext(folder.json.file)) \in VALID_VIDEO_EXTENSIONS

\* C10: scan never aborts because of one folder: malformed folders are
\* skipped and every other folder's item is returned.
C10_MalformedFoldersAreSkipped ==
    scanIn.called /\ workshop_dirs # {} =>
        /\ ~scanOut.raised
        /\ {scanOut.wallpapers[i].folder_path : i \in DOMAIN scanOut.wallpapers}
             = {folder_path_of(get_workshop_path(workshop_dirs), folders[i]) :
                  i \in {j \in DOMAIN folders :
                           Returnable(folders[j], scanIn.filter_videos_only)}}
        /\ Len(scanOut.wallpapers)
             = Cardinality({j \in DOMAIN folders :
                              Returnable(folders[j], scanIn.filter_videos_only)})

\* the file name of a path: its last component
basename(path) == path[Len(path)]

\* C11 as stated: every item scan returns names an existing regular file,
\* and with filter_videos_only its type is neither scene nor web (compared
\* case-insensitively) and the extension of its file, as it is written, is
\* one of VALID_VIDEO_EXTENSIONS.
C11_ReturnedItemsPassFilterVerbatim ==
    scanIn.called =>
        \A i \in DOMAIN scanOut.wallpapers :
            LET w == scanOut.wallpapers[i]
            IN  /\ path_exists(w.file_path, workshop_dirs, folders)
                /\ scanIn.filter_videos_only =>
                      /\ lower(w.wallpaper_type) \notin {"scene", "web"}
                      /\ splitext_ext(basename(w.file_path)) \in VALID_VIDEO_EXTENSIONS

\* C11 as amended: every item scan returns names an existing regular file,
\* and with filter_videos_only its type is neither scene nor web and the
\* extension of its file is one of VALID_VIDEO_EXTENSIONS, both compared
\* case-insensitively (the code lowercases them).
C11_ReturnedItemsPassFilter ==
    scanIn.called =>
        \A i \in DOMAIN scanOut.wallpapers :
            LET w == scanOut.wallpapers[i]
            IN  /\ path_exists(w.file_path, workshop_dirs, folders)
                /\ scanIn.filter_videos_only =>
                      /\ lower(w.wallpaper_type) \notin {"scene", "web"}
                      /\ lower(splitext_ext(basename(w.file_path)))
                            \in VALID_VIDEO_EXTENSIONS

\* a filtered scan returned an item whose extension is written in capitals,
\* beside folders it left out for their type, extension or missing file
C11_Witness ==
    /\ scanIn.called /\ scanIn.filter_videos_only /\ ~scanOut.raised
    /\ Len(scanOut.wallpapers) < Len(folders)
    /\ \E i \in DOMAIN scanOut.wallpapers :
          /\ splitext_ext(basename(scanOut.wallpapers[i].file_path)) = ".WebM"
          /\ scanOut.wallpapers[i].wallpaper_type = "Video"
          /\ path_exists(scanOut.wallpapers[i].file_path, workshop_dirs, folders)

\* text that, around surrounding whitespace, is a decimal integer: an
\* optional sign, then digits, single underscores allowed between digits
IsIntegerText(text) ==
    LET s == strip(text)
        body == IF s # <<>> /\ s[1] \in {"+", "-"} THEN Tail(s) ELSE s
    IN  /\ body # <<>>
        /\ \A i \in DOMAIN body : body[i] \in Digits \cup {"_"}
        /\ body[1] \in Digits /\ body[Len(body)] \in Digits
        /\ \A i \in 1..(Len(body) - 1) : ~(body[i] = "_" /\ body[i + 1] = "_")

\* C12: get_volume called after a save_volume(v) that returned True returns
\* v (for v = 0, 50, 100 and every other slider value) when the file can be
\* read; get_volume returns 50 when the volume file is absent, cannot be read
\* or decoded, or holds text that is not an integer; and neither call changes
\* the state file.
C12_VolumeRoundTripAndDefault ==
    [][/\ (volumeCall'.op = "get_volume" /\ volumeCall'.oc = "ok"
             /\ volumeCall.op = "save_volume" /\ volumeCall.saved)
          => volumeCall'.value = volumeCall.volume
       /\ (volumeCall'.op = "get_volume"
             /\ (~volumeFile.exists \/ volumeCall'.oc # "ok"
                   \/ ~IsIntegerText(volumeFile.text)))
          => volumeCall'.value = 50
       /\ volumeCall'.op \in {"save_volume", "get_volume"}
          => /\ stateFile' = stateFile
             /\ PersistedPath' = PersistedPath]_vars

\* get_volume returned 100 right after save_volume(100) replaced a corrupted
\* volume file, beside a state file that names a wallpaper
C12_Witness ==
    /\ volumeCall.op = "get_volume" /\ volumeCall.after_save /\ volumeCall.oc = "ok"
    /\ volumeCall.volume = 100 /\ volumeCall.value = 100
    /\ volumeFile = FileOf(<<"1", "0", "0">>)
    /\ PersistedPath # None

C14_ComputedIsWhatTheUnitPlays ==
    Computed("ok", "ok") # None =>
        unitFile = FileOf(ExpectedUnit(Computed("ok", "ok")))

====
